---- MODULE Spec2Model ----
(***************************************************************************)
(* Model of PlotJuggler's CSV column-type inference and timestamp parsing  *)
(* (plotjuggler_plugins/DataLoadCSV/timestamp_parsing.cpp) and of the      *)
(* owning string class PJ::StringRef.                                      *)
(*                                                                         *)
(* Representation choices                                                  *)
(*  - a std::string is a sequence of one-character strings;                *)
(*  - an int64_t is a record [neg, mag] where mag is the sequence of       *)
(*    decimal digits of the magnitude without leading zeros (TLC integers  *)
(*    are 32 bits wide, the epoch windows need 64);                        *)
(*  - a double is an exact decimal [tag, neg, mag, exp] = +-mag * 10^exp,  *)
(*    mag without leading or trailing zeros; binary rounding of doubles is *)
(*    not modelled;                                                        *)
(*  - std::optional<double> adds the tag "none".                           *)
(***************************************************************************)
EXTENDS Integers, Sequences, FiniteSets, TLC

VARIABLES
  hIn,      \* helper specifications: the argument(s) of the helper under test
  hOut,     \* helper specifications: the value it returned
  hDone,    \* helper specifications: which helper has returned ("" = none yet)
  str,      \* column specification: the cell text of the current row
  info,     \* column specification: the cached ColumnTypeInfo of the column
  rParse,   \* column specification: result of ParseWithType on the row
  rAuto,    \* column specification: result of AutoParseTimestamp on the row
  rFormat,  \* column specification: result of FormatParseTimestamp on the row
  fmtArg,   \* column specification: explicit format handed to FormatParseTimestamp
  rows,     \* column specification: number of rows consumed so far
  sample,   \* column specification: where info came from and the sample used
  fCall,    \* column specification: arguments FormatParseTimestamp hands to TryParseFormat
  objs,     \* StringRef specification: object slot -> [live, data, size, moved]
  heap,     \* StringRef specification: buffer address -> [st, len]
  fault     \* StringRef specification: memory faults observed so far

vars == <<hIn, hOut, hDone, str, info, rParse, rAuto, rFormat, fmtArg, rows,
          sample, fCall, objs, heap, fault>>

helperVars == <<hIn, hOut, hDone>>
columnVars == <<str, info, rParse, rAuto, rFormat, fmtArg, rows, sample, fCall>>
refVars    == <<objs, heap, fault>>

(***************************************************************************)
(* Bounds of the model                                                     *)
(***************************************************************************)
MaxNumLen == 4        \* longest string handed to CheckNumeric

(***************************************************************************)
(* Characters and small sequence helpers                                   *)
(***************************************************************************)
Digits == <<"0", "1", "2", "3", "4", "5", "6", "7", "8", "9">>

DigitChars == {Digits[i] : i \in 1..10}

\* std::isdigit
IsDigit(c) == c \in DigitChars

\* c - '0' for a digit character
DigitVal(c) == (CHOOSE i \in 1..10 : Digits[i] = c) - 1

\* the character of a digit value 0..9
DigitChar(d) == Digits[d + 1]

\* all sequences over S of length 0..n
RECURSIVE SeqsUpTo(_, _)
SeqsUpTo(S, n) ==
  IF n = 0 THEN {<<>>}
  ELSE LET shorter == SeqsUpTo(S, n - 1)
       IN  shorter \cup {Append(s, c) : s \in {t \in shorter : Len(t) = n - 1}, c \in S}

\* std::string::substr(pos, count) with 0-based pos, count clipped to the end
Substr(s, pos, count) ==
  LET last == IF pos + count > Len(s) THEN Len(s) ELSE pos + count
  IN  IF pos >= Len(s) THEN <<>> ELSE SubSeq(s, pos + 1, last)

\* std::string::substr(pos): everything from 0-based pos
SubstrFrom(s, pos) == Substr(s, pos, Len(s))

\* std::string::npos
npos == -1

\* std::string::rfind(c): 0-based index of the last c, npos if none
RECURSIVE RFindFrom(_, _, _)
RFindFrom(s, c, i) ==
  IF i = 0 THEN npos
  ELSE IF s[i] = c THEN i - 1 ELSE RFindFrom(s, c, i - 1)

RFind(s, c) == RFindFrom(s, c, Len(s))

\* std::string::find(c, from): 0-based index of the first c at or after from
RECURSIVE FindFrom(_, _, _)
FindFrom(s, c, from) ==
  IF from >= Len(s) THEN npos
  ELSE IF s[from + 1] = c THEN from ELSE FindFrom(s, c, from + 1)

(***************************************************************************)
(* Trim (timestamp_parsing.cpp:8)                                          *)
(***************************************************************************)
TrimChars == {" ", "\t", "\r", "\n"}

\* find_first_not_of(" \t\r\n"), 0-based, npos if none
RECURSIVE FindFirstNotOf(_, _)
FindFirstNotOf(s, i) ==
  IF i >= Len(s) THEN npos
  ELSE IF s[i + 1] \notin TrimChars THEN i ELSE FindFirstNotOf(s, i + 1)

\* find_last_not_of(" \t\r\n"), 0-based, npos if none
RECURSIVE FindLastNotOf(_, _)
FindLastNotOf(s, i) ==
  IF i = 0 THEN npos
  ELSE IF s[i] \notin TrimChars THEN i - 1 ELSE FindLastNotOf(s, i - 1)

Trim(s) ==
  LET start == FindFirstNotOf(s, 0)
  IN  IF start = npos THEN <<>>
      ELSE LET end == FindLastNotOf(s, Len(s))
           IN  Substr(s, start, end - start + 1)

(***************************************************************************)
(* CheckNumeric (timestamp_parsing.cpp:122)                                *)
(***************************************************************************)
\* the loop of CheckNumeric from index i (1-based) with the flags st
RECURSIVE CheckNumericScan(_, _, _)
CheckNumericScan(s, i, st) ==
  IF i > Len(s) THEN st
  ELSE LET c == s[i] IN
    IF c = "e" \/ c = "E"
    THEN IF st.has_exponent
         THEN [st EXCEPT !.is_number = FALSE]
         ELSE CheckNumericScan(s, i + 1, [st EXCEPT !.has_exponent = TRUE])
    ELSE IF c = "-" \/ c = "+"
    THEN IF i = 1 \/ s[i - 1] = "e" \/ s[i - 1] = "E"
         THEN CheckNumericScan(s, i + 1, st)
         ELSE [st EXCEPT !.is_number = FALSE]
    ELSE IF c = "." \/ c = ","
    THEN IF st.has_decimal \/ st.has_exponent
         THEN [st EXCEPT !.is_number = FALSE]
         ELSE CheckNumericScan(s, i + 1, [st EXCEPT !.has_decimal = TRUE])
    ELSE IF IsDigit(c)
    THEN CheckNumericScan(s, i + 1, [st EXCEPT !.has_digit = TRUE])
    ELSE [st EXCEPT !.is_number = FALSE]

\* the scan with the decimal-after-exponent test dropped
RECURSIVE CheckNumericScanLax(_, _, _)
CheckNumericScanLax(s, i, st) ==
  IF i > Len(s) THEN st
  ELSE LET c == s[i] IN
    IF c = "e" \/ c = "E"
    THEN IF st.has_exponent
         THEN [st EXCEPT !.is_number = FALSE]
         ELSE CheckNumericScanLax(s, i + 1, [st EXCEPT !.has_exponent = TRUE])
    ELSE IF c = "-" \/ c = "+"
    THEN IF i = 1 \/ s[i - 1] = "e" \/ s[i - 1] = "E"
         THEN CheckNumericScanLax(s, i + 1, st)
         ELSE [st EXCEPT !.is_number = FALSE]
    ELSE IF c = "." \/ c = ","
    THEN IF st.has_decimal
         THEN [st EXCEPT !.is_number = FALSE]
         ELSE CheckNumericScanLax(s, i + 1, [st EXCEPT !.has_decimal = TRUE])
    ELSE IF IsDigit(c)
    THEN CheckNumericScanLax(s, i + 1, [st EXCEPT !.has_digit = TRUE])
    ELSE [st EXCEPT !.is_number = FALSE]

\* the tail of CheckNumeric: no digit, or a dangling exponent or sign
CheckNumericFinish(s, st) ==
  LET last == s[Len(s)]
      bad  == ~st.has_digit \/ last = "e" \/ last = "E" \/ last = "+" \/ last = "-"
  IN  [is_number    |-> st.is_number /\ ~bad,
       has_decimal  |-> st.has_decimal,
       has_exponent |-> st.has_exponent]

NumericInfoInit ==
  [is_number |-> TRUE, has_decimal |-> FALSE, has_exponent |-> FALSE, has_digit |-> FALSE]

CheckNumericLax(s) == CheckNumericFinish(s, CheckNumericScanLax(s, 1, NumericInfoInit))

\* CheckNumeric is only ever called on a non-empty trimmed string
CheckNumeric(s) == CheckNumericFinish(s, CheckNumericScan(s, 1, NumericInfoInit))

(***************************************************************************)
(* 64-bit integers as sign and decimal magnitude                           *)
(***************************************************************************)
\* the decimal digits of a natural number, <<>> for 0
RECURSIVE ToDigits(_)
ToDigits(n) == IF n = 0 THEN <<>> ELSE Append(ToDigits(n \div 10), n % 10)

\* k zeros
RECURSIVE Zeros(_)
Zeros(k) == IF k = 0 THEN <<>> ELSE <<0>> \o Zeros(k - 1)

\* drop leading zeros of a digit sequence
RECURSIVE StripLeading(_)
StripLeading(m) ==
  IF m = <<>> THEN <<>>
  ELSE IF m[1] = 0 THEN StripLeading(Tail(m)) ELSE m

\* drop trailing zeros of a digit sequence
RECURSIVE StripTrailing(_)
StripTrailing(m) ==
  IF m = <<>> THEN <<>>
  ELSE IF m[Len(m)] = 0 THEN StripTrailing(SubSeq(m, 1, Len(m) - 1)) ELSE m

\* number of trailing zeros of a digit sequence
TrailingZeros(m) == Len(m) - Len(StripTrailing(m))

\* lexicographic < on digit sequences of equal length
RECURSIVE LexLT(_, _)
LexLT(a, b) ==
  IF a = <<>> THEN FALSE
  ELSE IF a[1] # b[1] THEN a[1] < b[1] ELSE LexLT(Tail(a), Tail(b))

\* < on magnitudes without leading zeros
MagLT(a, b) == Len(a) < Len(b) \/ (Len(a) = Len(b) /\ LexLT(a, b))

\* an int64_t value from sign and magnitude (no negative zero)
Big(neg, mag) ==
  LET m == StripLeading(mag) IN [neg |-> neg /\ m # <<>>, mag |-> m]

\* an int64_t value from a small natural number
BigOf(n) == Big(FALSE, ToDigits(n))

\* a < b on int64_t values
BigLT(a, b) ==
  IF a.neg /\ ~b.neg THEN TRUE
  ELSE IF ~a.neg /\ b.neg THEN FALSE
  ELSE IF a.neg THEN MagLT(b.mag, a.mag) ELSE MagLT(a.mag, b.mag)

\* a <= b on int64_t values
BigLE(a, b) == a = b \/ BigLT(a, b)

\* a * 10^k in unbounded arithmetic
MulPow10(a, k) == Big(a.neg, IF a.mag = <<>> THEN <<>> ELSE a.mag \o Zeros(k))

\* mag * m + a for small m and a
RECURSIVE MagMulAdd(_, _, _)
MagMulAdd(mag, m, a) ==
  IF mag = <<>> THEN ToDigits(a)
  ELSE LET v == mag[Len(mag)] * m + a
       IN  Append(MagMulAdd(SubSeq(mag, 1, Len(mag) - 1), m, v \div 10), v % 10)

INT64_MAX == Big(FALSE, <<9,2,2,3,3,7,2,0,3,6,8,5,4,7,7,5,8,0,7>>)
INT64_MIN == Big(TRUE,  <<9,2,2,3,3,7,2,0,3,6,8,5,4,7,7,5,8,0,8>>)

FitsInt64(a) == BigLE(INT64_MIN, a) /\ BigLE(a, INT64_MAX)

(***************************************************************************)
(* Epoch classification (timestamp_parsing.cpp:41, 189, 211)               *)
(***************************************************************************)
EPOCH_FIRST == 1400000000
EPOCH_LAST  == 2000000000

\* the window test with the bounds included
DetectEpochTypeInclusive(ts) ==
  IF BigLE(MulPow10(BigOf(EPOCH_FIRST), 9), ts) /\ BigLE(ts, MulPow10(BigOf(EPOCH_LAST), 9))
  THEN "EPOCH_NANOS"
  ELSE IF BigLE(MulPow10(BigOf(EPOCH_FIRST), 6), ts) /\ BigLE(ts, MulPow10(BigOf(EPOCH_LAST), 6))
  THEN "EPOCH_MICROS"
  ELSE IF BigLE(MulPow10(BigOf(EPOCH_FIRST), 3), ts) /\ BigLE(ts, MulPow10(BigOf(EPOCH_LAST), 3))
  THEN "EPOCH_MILLIS"
  ELSE IF BigLE(BigOf(EPOCH_FIRST), ts) /\ BigLE(ts, BigOf(EPOCH_LAST))
  THEN "EPOCH_SECONDS"
  ELSE "NUMBER"

DetectEpochType(ts) ==
  IF BigLT(MulPow10(BigOf(EPOCH_FIRST), 9), ts) /\ BigLT(ts, MulPow10(BigOf(EPOCH_LAST), 9))
  THEN "EPOCH_NANOS"
  ELSE IF BigLT(MulPow10(BigOf(EPOCH_FIRST), 6), ts) /\ BigLT(ts, MulPow10(BigOf(EPOCH_LAST), 6))
  THEN "EPOCH_MICROS"
  ELSE IF BigLT(MulPow10(BigOf(EPOCH_FIRST), 3), ts) /\ BigLT(ts, MulPow10(BigOf(EPOCH_LAST), 3))
  THEN "EPOCH_MILLIS"
  ELSE IF BigLT(BigOf(EPOCH_FIRST), ts) /\ BigLT(ts, BigOf(EPOCH_LAST))
  THEN "EPOCH_SECONDS"
  ELSE "NUMBER"

\* std::optional<double>: no value
None == [tag |-> "none", neg |-> FALSE, mag |-> <<>>, exp |-> 0]

\* result slot not yet written
Pending == [tag |-> "pending", neg |-> FALSE, mag |-> <<>>, exp |-> 0]

\* the double +-m * 10^exp for m without leading zeros
DecNorm(neg, m, exp) ==
  IF m = <<>> THEN [tag |-> "value", neg |-> FALSE, mag |-> <<>>, exp |-> 0]
  ELSE [tag |-> "value", neg |-> neg, mag |-> StripTrailing(m), exp |-> exp + TrailingZeros(m)]

\* the double +-mag * 10^exp in normal form
Dec(neg, mag, exp) == DecNorm(neg, StripLeading(mag), exp)

EpochToSeconds(ts, type) ==
  CASE type = "EPOCH_NANOS"  -> Dec(ts.neg, ts.mag, -9)
    [] type = "EPOCH_MICROS" -> Dec(ts.neg, ts.mag, -6)
    [] type = "EPOCH_MILLIS" -> Dec(ts.neg, ts.mag, -3)
    [] OTHER                 -> Dec(ts.neg, ts.mag, 0)

(***************************************************************************)
(* Idle values of the variable groups a specification does not use         *)
(***************************************************************************)
NoInfo == [type |-> "UNSET", format |-> <<>>, has_fractional |-> FALSE]

HelperIdle == hIn = <<>> /\ hOut = <<>> /\ hDone = ""

NoSample == [by |-> "none", s |-> <<>>]

NoCall == [called |-> FALSE, base |-> <<>>, fmt |-> <<>>, ns |-> 0]

ColumnIdle ==
  /\ str = <<>> /\ info = NoInfo /\ fmtArg = <<>> /\ rows = 0
  /\ sample = NoSample /\ fCall = NoCall
  /\ rParse = Pending /\ rAuto = Pending /\ rFormat = Pending

RefIdle == objs = <<>> /\ heap = <<>> /\ fault = {}

(***************************************************************************)
(* Specification of CheckNumeric on every short string over NumAlphabet    *)
(***************************************************************************)
NumAlphabet == {"7", ".", ",", "e", "E", "+", "-", "x"}

NumericInputs == SeqsUpTo(NumAlphabet, MaxNumLen) \ {<<>>}

InitNumeric ==
  /\ hIn \in NumericInputs /\ hOut = <<>> /\ hDone = ""
  /\ ColumnIdle /\ RefIdle

CheckNumericCall ==
  /\ hDone = ""
  /\ hOut' = CheckNumeric(hIn)
  /\ hDone' = "CheckNumeric"
  /\ UNCHANGED <<hIn, columnVars, refVars>>

NextNumeric == CheckNumericCall

SpecNumeric == InitNumeric /\ [][NextNumeric]_vars

(***************************************************************************)
(* Specification of DetectEpochType on values around every window bound    *)
(***************************************************************************)
MaxTail == 9          \* digits appended to a seconds-scale prefix

EpochPrefixes ==
  {42, 140000000, 1399999999, EPOCH_FIRST, 1400000001, 1700000000,
   1999999999, EPOCH_LAST, 2000000001}

\* k digits: all 0, all 9, or 0..01
EpochTails ==
  {<<>>} \cup {Zeros(k) : k \in 1..MaxTail}
         \cup {[i \in 1..k |-> 9] : k \in 1..MaxTail}
         \cup {Zeros(k - 1) \o <<1>> : k \in 1..MaxTail}

EpochInputs ==
  {b \in {Big(n, ToDigits(p) \o t) : n \in BOOLEAN, p \in EpochPrefixes, t \in EpochTails}
         \cup {INT64_MAX, INT64_MIN, BigOf(0)} : FitsInt64(b)}

InitEpoch ==
  /\ hIn \in EpochInputs /\ hOut = <<>> /\ hDone = ""
  /\ ColumnIdle /\ RefIdle

DetectEpochTypeCall ==
  /\ hDone = ""
  /\ hOut' = DetectEpochType(hIn)
  /\ hDone' = "DetectEpochType"
  /\ UNCHANGED <<hIn, columnVars, refVars>>

NextEpoch == DetectEpochTypeCall

SpecEpoch == InitEpoch /\ [][NextEpoch]_vars

(***************************************************************************)
(* Claims about DetectEpochType                                            *)
(***************************************************************************)
\* EPOCH_FIRST * 10^k < t < EPOCH_LAST * 10^k
InWindow(t, k) ==
  BigLT(MulPow10(BigOf(EPOCH_FIRST), k), t) /\ BigLT(t, MulPow10(BigOf(EPOCH_LAST), k))

\* C7: DetectEpochType(t) is EpochNanos / Micros / Millis / Seconds exactly
\* when t lies strictly inside the window scaled by 1e9 / 1e6 / 1e3 / 1, and
\* Number exactly when t lies in none; t lies in at most one window and the
\* scaled bounds fit in 64 bits.
C7_EpochWindows ==
  hDone = "DetectEpochType" =>
    /\ (hOut = "EPOCH_NANOS"   <=> InWindow(hIn, 9))
    /\ (hOut = "EPOCH_MICROS"  <=> InWindow(hIn, 6))
    /\ (hOut = "EPOCH_MILLIS"  <=> InWindow(hIn, 3))
    /\ (hOut = "EPOCH_SECONDS" <=> InWindow(hIn, 0))
    /\ (hOut = "NUMBER" <=> \A k \in {0, 3, 6, 9} : ~InWindow(hIn, k))
    /\ Cardinality({k \in {0, 3, 6, 9} : InWindow(hIn, k)}) <= 1
    /\ \A k \in {0, 3, 6, 9} :
         FitsInt64(MulPow10(BigOf(EPOCH_FIRST), k)) /\ FitsInt64(MulPow10(BigOf(EPOCH_LAST), k))

\* a value one above the lower bound of the nanosecond window was classified
C7_Witness ==
  /\ hDone = "DetectEpochType"
  /\ hIn = Big(FALSE, ToDigits(EPOCH_FIRST) \o Zeros(8) \o <<1>>)
  /\ hOut = "EPOCH_NANOS"

(***************************************************************************)
(* Claims about CheckNumeric                                               *)
(***************************************************************************)
IsExpChar(c)  == c = "e" \/ c = "E"
IsDecChar(c)  == c = "." \/ c = ","
IsSignChar(c) == c = "+" \/ c = "-"

\* the six conditions the specification lists
NumericAsSpecified(s) ==
  /\ \A i \in 1..Len(s) : IsDigit(s[i]) \/ IsDecChar(s[i]) \/ IsExpChar(s[i]) \/ IsSignChar(s[i])
  /\ Cardinality({i \in 1..Len(s) : IsDecChar(s[i])}) <= 1
  /\ Cardinality({i \in 1..Len(s) : IsExpChar(s[i])}) <= 1
  /\ \A i \in 1..Len(s) : IsSignChar(s[i]) => (i = 1 \/ IsExpChar(s[i - 1]))
  /\ \E i \in 1..Len(s) : IsDigit(s[i])
  /\ ~IsExpChar(s[Len(s)]) /\ ~IsSignChar(s[Len(s)])

\* no decimal marker to the right of an exponent marker
NoDecimalAfterExponent(s) ==
  \A i, j \in 1..Len(s) : (IsExpChar(s[i]) /\ IsDecChar(s[j])) => j < i

\* C8 as stated: is_number holds exactly under the six listed conditions.
C8_AsStated ==
  hDone = "CheckNumeric" => (hOut.is_number <=> NumericAsSpecified(hIn))

\* C8 amended: is_number holds exactly under the six listed conditions
\* together with: no decimal marker follows an exponent marker.
C8_CheckNumeric ==
  hDone = "CheckNumeric" =>
    (hOut.is_number <=> (NumericAsSpecified(hIn) /\ NoDecimalAfterExponent(hIn)))

\* a string with a decimal marker after the exponent marker was rejected
C8_Witness ==
  /\ hDone = "CheckNumeric"
  /\ hIn = <<"7", "e", ".", "7">>
  /\ ~hOut.is_number

(***************************************************************************)
(* ExtractFractionalSeconds (timestamp_parsing.cpp:46)                     *)
(***************************************************************************)
\* the while loop advancing over digits: first 0-based index >= pos that is
\* past the end or not a digit
RECURSIVE SkipDigits(_, _)
SkipDigits(s, pos) ==
  IF pos < Len(s) /\ IsDigit(s[pos + 1]) THEN SkipDigits(s, pos + 1) ELSE pos

\* k '0' characters
RECURSIVE ZeroChars(_)
ZeroChars(k) == IF k = 0 THEN <<>> ELSE <<"0">> \o ZeroChars(k - 1)

\* the value of a string of at most nine digit characters
RECURSIVE DigitsToNat(_)
DigitsToNat(d) ==
  IF d = <<>> THEN 0
  ELSE DigitsToNat(SubSeq(d, 1, Len(d) - 1)) * 10 + DigitVal(d[Len(d)])

\* the splitter without the padding to nine digits
ExtractFractionalSecondsNoPad(input) ==
  LET dot_pos   == RFind(input, ".")
      colon_pos == RFind(input, ":")
  IN  IF dot_pos = npos \/ colon_pos = npos \/ dot_pos <= colon_pos
      THEN [base |-> input, ns |-> 0]
      ELSE LET frac_start == dot_pos + 1
               frac_end   == SkipDigits(input, frac_start)
           IN  IF frac_end <= frac_start
               THEN [base |-> input, ns |-> 0]
               ELSE LET frac_str == Substr(input, frac_start, frac_end - frac_start)
                        nine     == IF Len(frac_str) > 9 THEN Substr(frac_str, 0, 9)
                                    ELSE frac_str
                    IN  [base |-> Substr(input, 0, dot_pos) \o SubstrFrom(input, frac_end),
                         ns   |-> DigitsToNat(nine)]

ExtractFractionalSeconds(input) ==
  LET dot_pos   == RFind(input, ".")
      colon_pos == RFind(input, ":")
  IN  IF dot_pos = npos \/ colon_pos = npos \/ dot_pos <= colon_pos
      THEN [base |-> input, ns |-> 0]
      ELSE LET frac_start == dot_pos + 1
               frac_end   == SkipDigits(input, frac_start)
           IN  IF frac_end <= frac_start
               THEN [base |-> input, ns |-> 0]
               ELSE LET frac_str == Substr(input, frac_start, frac_end - frac_start)
                        nine     == IF Len(frac_str) < 9
                                    THEN frac_str \o ZeroChars(9 - Len(frac_str))
                                    ELSE IF Len(frac_str) > 9 THEN Substr(frac_str, 0, 9)
                                    ELSE frac_str
                    IN  [base |-> Substr(input, 0, dot_pos) \o SubstrFrom(input, frac_end),
                         ns   |-> DigitsToNat(nine)]

(***************************************************************************)
(* Specification of ExtractFractionalSeconds                               *)
(***************************************************************************)
MaxFracLen    == 5    \* longest string over FracAlphabet
MaxFracDigits == 11   \* longest fractional digit run

FracAlphabet == {"1", ":", ".", "Z"}

FracPattern == <<"1", "2", "3", "4", "5", "6", "7", "8", "9", "1", "2", "3", "4">>

FracRuns ==
  {SubSeq(FracPattern, 1, k) : k \in 1..MaxFracDigits}
    \cup {[i \in 1..k |-> "9"] : k \in 1..MaxFracDigits}
    \cup {[i \in 1..k |-> "0"] : k \in 1..MaxFracDigits}

FracInputs ==
  SeqsUpTo(FracAlphabet, MaxFracLen)
    \cup {pre \o <<".">> \o d \o suf :
            pre \in {<<"1", "2", ":", "3", "0", ":", "4", "5">>, <<"2", ".", "1", ":", "5">>,
                     <<"2", "0", "2", "4">>},
            d \in FracRuns,
            suf \in {<<>>, <<"Z">>, <<"+", "0", "1">>}}
    \cup {<<"1", "2", ":", "3", "0", ":", "4", "5">>,
          <<"2", "0", "2", "4", ".", "0", "1", ".", "0", "1">>}

InitFrac ==
  /\ hIn \in FracInputs /\ hOut = <<>> /\ hDone = ""
  /\ ColumnIdle /\ RefIdle

ExtractFractionalSecondsCall ==
  /\ hDone = ""
  /\ hOut' = ExtractFractionalSeconds(hIn)
  /\ hDone' = "ExtractFractionalSeconds"
  /\ UNCHANGED <<hIn, columnVars, refVars>>

NextFrac == ExtractFractionalSecondsCall

SpecFrac == InitFrac /\ [][NextFrac]_vars

(***************************************************************************)
(* Claims about ExtractFractionalSeconds                                   *)
(***************************************************************************)
\* 1-based index of the last c in s, 0 if none
LastIndexOf(s, c) ==
  IF \E i \in 1..Len(s) : s[i] = c
  THEN CHOOSE i \in 1..Len(s) : s[i] = c /\ \A j \in (i + 1)..Len(s) : s[j] # c
  ELSE 0

\* 1-based index of the last character of the maximal digit run after index p
RunEnd(s, p) ==
  CHOOSE e \in p..Len(s) :
    /\ \A i \in (p + 1)..e : IsDigit(s[i])
    /\ (e = Len(s) \/ ~IsDigit(s[e + 1]))

RECURSIVE Pow10(_)
Pow10(k) == IF k = 0 THEN 1 ELSE 10 * Pow10(k - 1)

\* the run s[p+1..e] read as nine digits, right-padded with 0 or cut after nine
RECURSIVE NineDigitValue(_, _, _, _)
NineDigitValue(s, p, e, i) ==
  IF i > 9 THEN 0
  ELSE (IF p + i <= e THEN DigitVal(s[p + i]) * Pow10(9 - i) ELSE 0)
       + NineDigitValue(s, p, e, i + 1)

\* the stated result: unchanged without a '.' or with the last '.' before the
\* last ':' or without any ':'; otherwise the run is cut out and converted
FracAsStated(s, out) ==
  LET ld == LastIndexOf(s, ".")
      lc == LastIndexOf(s, ":")
  IN  IF ld = 0 \/ lc = 0 \/ ld < lc
      THEN out = [base |-> s, ns |-> 0]
      ELSE LET e == RunEnd(s, ld)
           IN  out = [base |-> SubSeq(s, 1, ld - 1) \o SubSeq(s, e + 1, Len(s)),
                      ns   |-> NineDigitValue(s, ld, e, 1)]

\* as FracAsStated, with an empty digit run also leaving the input unchanged
FracAmended(s, out) ==
  LET ld == LastIndexOf(s, ".")
      lc == LastIndexOf(s, ":")
  IN  IF ld = 0 \/ lc = 0 \/ ld < lc \/ RunEnd(s, ld) = ld
      THEN out = [base |-> s, ns |-> 0]
      ELSE LET e == RunEnd(s, ld)
           IN  out = [base |-> SubSeq(s, 1, ld - 1) \o SubSeq(s, e + 1, Len(s)),
                      ns   |-> NineDigitValue(s, ld, e, 1)]

\* C9 as stated: nanoseconds in [0, 999999999]; unchanged input and 0 ns
\* without a '.', without a ':' or with the last '.' before the last ':';
\* otherwise the '.' and the digit run d after it are removed and d, padded
\* or cut to nine digits, is the nanosecond count.
C9_AsStated ==
  hDone = "ExtractFractionalSeconds" =>
    (hOut.ns \in 0..999999999 /\ FracAsStated(hIn, hOut))

\* C9 amended: as stated, except that when no digit directly follows the
\* last '.', the input is returned unchanged (the '.' is kept) with 0 ns.
C9_ExtractFractionalSeconds ==
  hDone = "ExtractFractionalSeconds" =>
    (hOut.ns \in 0..999999999 /\ FracAmended(hIn, hOut))

\* a run longer than nine digits after a time was cut and the suffix kept
C9_Witness ==
  /\ hDone = "ExtractFractionalSeconds"
  /\ hIn = <<"1", "2", ":", "3", "0", ":", "4", "5", ".">> \o SubSeq(FracPattern, 1, 10) \o <<"Z">>
  /\ hOut = [base |-> <<"1", "2", ":", "3", "0", ":", "4", "5", "Z">>, ns |-> 123456789]

(***************************************************************************)
(* IsDayFirstFormat (timestamp_parsing.cpp:227)                            *)
(***************************************************************************)
\* the loop "v = v * 10 + (s[pos] - '0')" from 0-based pos with accumulator v
RECURSIVE ReadField(_, _, _)
ReadField(s, pos, v) ==
  IF pos < Len(s) /\ IsDigit(s[pos + 1])
  THEN ReadField(s, pos + 1, v * 10 + DigitVal(s[pos + 1]))
  ELSE [val |-> v, pos |-> pos]

\* the resolver without the upper limit of 31 on either field
IsDayFirstFormatNoLimit(s, separator) ==
  LET f1   == ReadField(s, 0, 0)
      pos1 == IF f1.pos < Len(s) /\ s[f1.pos + 1] = separator THEN f1.pos + 1 ELSE f1.pos
      f2   == ReadField(s, pos1, 0)
  IN  IF f1.val > 12 THEN TRUE
      ELSE IF f2.val > 12 THEN FALSE
      ELSE TRUE

IsDayFirstFormat(s, separator) ==
  LET f1   == ReadField(s, 0, 0)
      pos1 == IF f1.pos < Len(s) /\ s[f1.pos + 1] = separator THEN f1.pos + 1 ELSE f1.pos
      f2   == ReadField(s, pos1, 0)
  IN  IF f1.val > 12 /\ f1.val <= 31 THEN TRUE
      ELSE IF f2.val > 12 /\ f2.val <= 31 THEN FALSE
      ELSE TRUE

(***************************************************************************)
(* Specification of IsDayFirstFormat                                       *)
(***************************************************************************)
MaxFieldLen == 2      \* longest enumerated date field

FieldChars == {"0", "1", "3"}

DayFields ==
  SeqsUpTo(FieldChars, MaxFieldLen)
    \cup {<<"0", "5">>, <<"1", "2">>, <<"3", "2">>, <<"9", "9">>, <<"2", "0", "2", "4">>}

DayFirstInputs ==
  {[s |-> a \o d \o b \o t, separator |-> sep] :
     a \in DayFields, b \in DayFields,
     d \in {<<>>, <<"/">>, <<"-">>, <<"/", "/">>},
     t \in {<<>>, <<"/", "2", "0", "2", "4">>, <<"-", "2", "0", "2", "4">>},
     sep \in {"/", "-"}}

InitDayFirst ==
  /\ hIn \in DayFirstInputs /\ hOut = <<>> /\ hDone = ""
  /\ ColumnIdle /\ RefIdle

IsDayFirstFormatCall ==
  /\ hDone = ""
  /\ hOut' = IsDayFirstFormat(hIn.s, hIn.separator)
  /\ hDone' = "IsDayFirstFormat"
  /\ UNCHANGED <<hIn, columnVars, refVars>>

NextDayFirst == IsDayFirstFormatCall

SpecDayFirst == InitDayFirst /\ [][NextDayFirst]_vars

(***************************************************************************)
(* Claims about IsDayFirstFormat                                           *)
(***************************************************************************)
\* the value of the digit characters s[from..to] (1-based, inclusive)
RECURSIVE RunValue(_, _, _)
RunValue(s, from, to) ==
  IF from > to THEN 0
  ELSE DigitVal(s[from]) * Pow10(to - from) + RunValue(s, from + 1, to)

\* the leading digit run of s
FirstField(s) == RunValue(s, 1, RunEnd(s, 0))

\* the digit run after the leading run and exactly one separator, if present
SecondField(s, sep) ==
  LET e1 == RunEnd(s, 0)
      p  == IF e1 < Len(s) /\ s[e1 + 1] = sep THEN e1 + 1 ELSE e1
  IN  RunValue(s, p + 1, RunEnd(s, p))

\* C4 as stated: day-first when first > 12; otherwise month-first when
\* second > 12; otherwise day-first; no upper bound on either field.
C4_AsStated ==
  hDone = "IsDayFirstFormat" =>
    LET first  == FirstField(hIn.s)
        second == SecondField(hIn.s, hIn.separator)
    IN  hOut = (IF first > 12 THEN TRUE ELSE IF second > 12 THEN FALSE ELSE TRUE)

\* C4 amended: day-first when 12 < first <= 31; otherwise month-first when
\* 12 < second <= 31; otherwise day-first.
C4_IsDayFirstFormat ==
  hDone = "IsDayFirstFormat" =>
    LET first  == FirstField(hIn.s)
        second == SecondField(hIn.s, hIn.separator)
    IN  hOut = (IF first > 12 /\ first <= 31 THEN TRUE
                ELSE IF second > 12 /\ second <= 31 THEN FALSE
                ELSE TRUE)

\* a first field above 31 with a second field in 13..31 was resolved month-first
C4_Witness ==
  /\ hDone = "IsDayFirstFormat"
  /\ hIn = [s |-> <<"3", "2", "/", "1", "3", "/", "2", "0", "2", "4">>, separator |-> "/"]
  /\ hOut = FALSE

(***************************************************************************)
(* std::stoll (used at timestamp_parsing.cpp:277, 412, 492, 499)           *)
(***************************************************************************)
SpaceChars == {" ", "\t", "\n", "\r", "\f"}

\* first 0-based index at or after pos that is not white space
RECURSIVE SkipSpace(_, _)
SkipSpace(s, pos) ==
  IF pos < Len(s) /\ s[pos + 1] \in SpaceChars THEN SkipSpace(s, pos + 1) ELSE pos

\* the conversion threw (std::invalid_argument or std::out_of_range)
StollThrows == [ok |-> FALSE, val |-> BigOf(0)]

\* std::stoll(s): white space, optional sign, longest run of decimal digits
Stoll(s) ==
  LET p0   == SkipSpace(s, 0)
      sign == p0 < Len(s) /\ (s[p0 + 1] = "+" \/ s[p0 + 1] = "-")
      neg  == sign /\ s[p0 + 1] = "-"
      p1   == IF sign THEN p0 + 1 ELSE p0
      p2   == SkipDigits(s, p1)
      v    == Big(neg, [i \in 1..(p2 - p1) |-> DigitVal(s[p1 + i])])
  IN  IF p2 = p1 THEN StollThrows
      ELSE IF ~FitsInt64(v) THEN StollThrows
      ELSE [ok |-> TRUE, val |-> v]

HexChars == <<"0", "1", "2", "3", "4", "5", "6", "7", "8", "9",
              "a", "b", "c", "d", "e", "f", "A", "B", "C", "D", "E", "F">>

IsHexDigit(c) == \E i \in 1..22 : HexChars[i] = c

HexVal(c) ==
  LET i == CHOOSE j \in 1..22 : HexChars[j] = c
  IN  IF i <= 16 THEN i - 1 ELSE i - 7

\* first 0-based index at or after pos that is not a hexadecimal digit
RECURSIVE SkipHex(_, _)
SkipHex(s, pos) ==
  IF pos < Len(s) /\ IsHexDigit(s[pos + 1]) THEN SkipHex(s, pos + 1) ELSE pos

\* the magnitude of the hexadecimal digits s[from+1..to]
RECURSIVE HexMag(_, _, _)
HexMag(s, from, to) ==
  IF to <= from THEN <<>>
  ELSE MagMulAdd(HexMag(s, from, to - 1), 16, HexVal(s[to]))

\* std::stoll(s, nullptr, 16): white space, optional sign, optional 0x/0X
\* followed by a hexadecimal digit, longest run of hexadecimal digits
StollHex(s) ==
  LET p0   == SkipSpace(s, 0)
      sign == p0 < Len(s) /\ (s[p0 + 1] = "+" \/ s[p0 + 1] = "-")
      neg  == sign /\ s[p0 + 1] = "-"
      p1   == IF sign THEN p0 + 1 ELSE p0
      pre  == /\ p1 + 2 < Len(s)
              /\ s[p1 + 1] = "0"
              /\ (s[p1 + 2] = "x" \/ s[p1 + 2] = "X")
              /\ IsHexDigit(s[p1 + 3])
      p2   == IF pre THEN p1 + 2 ELSE p1
      p3   == SkipHex(s, p2)
      v    == Big(neg, HexMag(s, p2, p3))
  IN  IF p3 = p2 THEN StollThrows
      ELSE IF ~FitsInt64(v) THEN StollThrows
      ELSE [ok |-> TRUE, val |-> v]

\* static_cast<double>(int64_t)
ToDoubleOfInt(v) == Dec(v.neg, v.mag, 0)

(***************************************************************************)
(* toDouble (timestamp_parsing.cpp:19)                                     *)
(***************************************************************************)
\* qstr.replace(',', '.')
ReplaceCommas(s) == [i \in 1..Len(s) |-> IF s[i] = "," THEN "." ELSE s[i]]

\* s has a '+' or '-' at 0-based pos
SignAt(s, pos) == pos < Len(s) /\ (s[pos + 1] = "+" \/ s[pos + 1] = "-")

\* s has a '-' at 0-based pos
MinusAt(s, pos) == pos < Len(s) /\ s[pos + 1] = "-"

\* the digits s[from+1..to] as digit values
DigitValues(s, from, to) == [i \in 1..(to - from) |-> DigitVal(s[from + i])]

\* the exponent digits as a number, 999 standing for every larger exponent
ExponentValue(edig) == IF Len(edig) > 3 THEN 999 ELSE DigitsToNat(edig)

\* the parsed pieces: mantissa digits s[p1+1..p2] and s[p3+1..p4], exponent
\* digits s[p6+1..p7] (hasE), signs neg and eneg
LocaleDoubleValue(s, neg, p1, p2, p3, p4, hasE, eneg, p6, p7) ==
  IF (p2 - p1) + (p4 - p3) = 0 THEN None
  ELSE IF hasE /\ p7 = p6 THEN None
  ELSE IF p7 # Len(s) THEN None
  ELSE IF ExponentValue(Substr(s, p6, p7 - p6)) > 300 THEN None
  ELSE Dec(neg, DigitValues(s, p1, p2) \o DigitValues(s, p3, p4),
           (IF eneg THEN 0 - ExponentValue(Substr(s, p6, p7 - p6))
            ELSE ExponentValue(Substr(s, p6, p7 - p6))) - (p4 - p3))

\* the exponent part from 0-based p4 on: p6 is the first exponent digit
LocaleDoubleExponent(s, neg, p1, p2, p3, p4, hasE, p6) ==
  LocaleDoubleValue(s, neg, p1, p2, p3, p4, hasE, hasE /\ MinusAt(s, p6 - 1), p6,
                    IF hasE THEN SkipDigits(s, p6) ELSE p6)

\* the part after the mantissa, which ends at 0-based p4
LocaleDoubleTail(s, neg, p1, p2, p3, p4) ==
  LET hasE == p4 < Len(s) /\ (s[p4 + 1] = "e" \/ s[p4 + 1] = "E")
  IN  LocaleDoubleExponent(s, neg, p1, p2, p3, p4, hasE,
                           IF hasE THEN (IF SignAt(s, p4 + 1) THEN p4 + 2 ELSE p4 + 1) ELSE p4)

\* the fraction digits after the integer digits s[p1+1..p2]
LocaleDoubleFraction(s, neg, p1, p2) ==
  IF p2 < Len(s) /\ s[p2 + 1] = "."
  THEN LocaleDoubleTail(s, neg, p1, p2, p2 + 1, SkipDigits(s, p2 + 1))
  ELSE LocaleDoubleTail(s, neg, p1, p2, p2, p2)

\* the locale-independent parser: [sign] digits [. digits] [e [sign] digits],
\* at least one mantissa digit, the whole text consumed
ParseLocaleDouble(s) ==
  IF SignAt(s, 0)
  THEN LocaleDoubleFraction(s, MinusAt(s, 0), 1, SkipDigits(s, 1))
  ELSE LocaleDoubleFraction(s, FALSE, 0, SkipDigits(s, 0))

ToDouble(s) == ParseLocaleDouble(ReplaceCommas(s))

(***************************************************************************)
(* The calendar parser behind TryParseFormat (date::parse into a           *)
(* sys_time<seconds>): conversion specifiers %Y %y %m %d %H %M %S %z,      *)
(* white space matching any white space, every other character itself.     *)
(* Input left over after the format is exhausted is not an error.          *)
(***************************************************************************)
Unset == -1

NoFields == [Y |-> Unset, m |-> Unset, d |-> Unset, H |-> Unset, M |-> Unset,
             S |-> Unset, off |-> 0]

\* the digits s[pos+1..e] as a numeric field
FieldRead(s, pos, e) ==
  [ok |-> e > pos, val |-> DigitsToNat(Substr(s, pos, e - pos)), pos |-> e]

\* the smaller of two numbers
Min(a, b) == IF a < b THEN a ELSE b

\* read between 1 and w digits at 0-based pos
ReadUnsigned(s, pos, w) == FieldRead(s, pos, Min(SkipDigits(s, pos), pos + w))

\* the field a conversion specifier fills and its maximal width
SpecField(k) ==
  CASE k = "Y" -> [name |-> "Y", w |-> 4]
    [] k = "y" -> [name |-> "Y", w |-> 2]
    [] k = "m" -> [name |-> "m", w |-> 2]
    [] k = "d" -> [name |-> "d", w |-> 2]
    [] k = "H" -> [name |-> "H", w |-> 2]
    [] k = "M" -> [name |-> "M", w |-> 2]
    [] k = "S" -> [name |-> "S", w |-> 2]
    [] OTHER   -> [name |-> "",  w |-> 0]

\* two-digit years: 69..99 are 19xx, 00..68 are 20xx
CenturyOf(k, v) == IF k = "y" THEN (IF v >= 69 THEN 1900 + v ELSE 2000 + v) ELSE v

\* the offset in minutes from the hour field hh and the minute field mm
OffsetRead(s, pos, hh, mm) ==
  IF ~SignAt(s, pos) \/ ~hh.ok \/ hh.pos # pos + 3 THEN [ok |-> FALSE, val |-> 0, pos |-> pos]
  ELSE IF mm.ok /\ mm.pos = hh.pos + 2
  THEN [ok  |-> TRUE,
        val |-> (IF MinusAt(s, pos) THEN 0 - 1 ELSE 1) * (hh.val * 60 + mm.val),
        pos |-> mm.pos]
  ELSE [ok  |-> TRUE,
        val |-> (IF MinusAt(s, pos) THEN 0 - 1 ELSE 1) * (hh.val * 60),
        pos |-> hh.pos]

\* %z: sign, two digits of hours, optionally two digits of minutes
ReadOffset(s, pos) ==
  OffsetRead(s, pos, ReadUnsigned(s, pos + 1, 2), ReadUnsigned(s, pos + 3, 2))

RECURSIVE DateScan(_, _, _, _, _)

\* continue after %z read r
ScanOffset(s, f, fpos, fld, r) ==
  IF r.ok THEN DateScan(s, r.pos, f, fpos + 2, [fld EXCEPT !.off = r.val])
  ELSE [ok |-> FALSE, fld |-> fld]

\* continue after the field named name read value v (r is the raw read)
ScanField(s, f, fpos, fld, name, r, v) ==
  IF ~r.ok \/ (fld[name] # Unset /\ fld[name] # v)
  THEN [ok |-> FALSE, fld |-> fld]
  ELSE DateScan(s, r.pos, f, fpos + 2, [fld EXCEPT ![name] = v])

\* the conversion specifier k at 0-based fpos of f
ScanSpecifier(s, pos, f, fpos, fld, k, r) ==
  IF k = "z" THEN ScanOffset(s, f, fpos, fld, ReadOffset(s, pos))
  ELSE IF SpecField(k).name = "" THEN [ok |-> FALSE, fld |-> fld]
  ELSE ScanField(s, f, fpos, fld, SpecField(k).name, r, CenturyOf(k, r.val))

\* match format f from 0-based fpos against s from 0-based pos
DateScan(s, pos, f, fpos, fld) ==
  IF fpos >= Len(f) THEN [ok |-> TRUE, fld |-> fld]
  ELSE IF f[fpos + 1] = "%" /\ fpos + 1 < Len(f)
  THEN ScanSpecifier(s, pos, f, fpos, fld, f[fpos + 2],
                     ReadUnsigned(s, pos, SpecField(f[fpos + 2]).w))
  ELSE IF f[fpos + 1] \in SpaceChars
  THEN DateScan(s, SkipSpace(s, pos), f, fpos + 1, fld)
  ELSE IF pos < Len(s) /\ s[pos + 1] = f[fpos + 1]
  THEN DateScan(s, pos + 1, f, fpos + 1, fld)
  ELSE [ok |-> FALSE, fld |-> fld]

IsLeap(y) == y % 4 = 0 /\ (y % 100 # 0 \/ y % 400 = 0)

DaysInMonth(y, m) ==
  IF m = 2 THEN (IF IsLeap(y) THEN 29 ELSE 28)
  ELSE IF m \in {4, 6, 9, 11} THEN 30 ELSE 31

\* days from 1970-01-01 to the civil date y-m-d
DaysFromCivil(y, m, d) ==
  LET yy  == IF m <= 2 THEN y - 1 ELSE y
      era == yy \div 400
      yoe == yy - era * 400
      doy == (153 * (IF m > 2 THEN m - 3 ELSE m + 9) + 2) \div 5 + d - 1
      doe == yoe * 365 + yoe \div 4 - yoe \div 100 + doy
  IN  era * 146097 + doe - 719468

\* days * 86400 + r as a 64-bit integer, for any sign of days, 0 <= r < 86400
SecondsOf(days, r) ==
  IF days >= 0 THEN Big(FALSE, MagMulAdd(ToDigits(days), 86400, r))
  ELSE Big(TRUE, MagMulAdd(ToDigits(0 - days - 1), 86400, 86400 - r))

\* a time field, 0 when the format has none
FieldOr0(v) == IF v = Unset THEN 0 ELSE v

\* seconds into the day (UTC), possibly outside 0..86399 after the offset
TimeOfDay(fld) ==
  FieldOr0(fld.H) * 3600 + FieldOr0(fld.M) * 60 + FieldOr0(fld.S) - fld.off * 60

\* seconds since the epoch of day number days and tod seconds into it
SecondsAt(days, tod) == SecondsOf(days + (tod \div 86400), tod % 86400)

ParseFailed == [ok |-> FALSE, secs |-> BigOf(0)]

\* the result of date::parse from the scanned fields r
DateFromFields(r) ==
  IF ~r.ok THEN ParseFailed
  ELSE IF r.fld.Y = Unset \/ r.fld.m \notin 1..12 \/ r.fld.d < 1 THEN ParseFailed
  ELSE IF r.fld.d > DaysInMonth(r.fld.Y, r.fld.m) THEN ParseFailed
  ELSE IF FieldOr0(r.fld.H) > 23 \/ FieldOr0(r.fld.M) > 59 \/ FieldOr0(r.fld.S) > 59
  THEN ParseFailed
  ELSE [ok   |-> TRUE,
        secs |-> SecondsAt(DaysFromCivil(r.fld.Y, r.fld.m, r.fld.d), TimeOfDay(r.fld))]

\* date::parse(fmt, tp): failure, or the seconds since the epoch
DateParse(s, f) == DateFromFields(DateScan(s, 0, f, 0, NoFields))

(***************************************************************************)
(* TryParseFormat (timestamp_parsing.cpp:96)                               *)
(***************************************************************************)
\* magnitude - 1 for a magnitude > 0
RECURSIVE MagDec(_)
MagDec(m) ==
  IF m[Len(m)] > 0 THEN [m EXCEPT ![Len(m)] = @ - 1]
  ELSE Append(MagDec(SubSeq(m, 1, Len(m) - 1)), 9)

\* n as exactly nine digits
NineDigits(n) == [i \in 1..9 |-> (n \div Pow10(9 - i)) % 10]

\* duration_cast<nanoseconds>(secs) + ns, for 0 <= ns < 10^9
TotalNanos(secs, ns) ==
  IF ~secs.neg THEN Big(FALSE, secs.mag \o NineDigits(ns))
  ELSE IF ns = 0 THEN Big(TRUE, secs.mag \o NineDigits(0))
  ELSE Big(TRUE, MagDec(secs.mag) \o NineDigits(1000000000 - ns))

\* static_cast of a nanosecond count to a double of seconds
SecondsOfNanos(total_ns) == Dec(total_ns.neg, total_ns.mag, -9)

\* the if (!in.fail()) of TryParseFormat on the parse result r
ParseResult(r, fractional_ns) ==
  IF r.ok THEN SecondsOfNanos(TotalNanos(r.secs, fractional_ns)) ELSE None

TryParseFormat(base_str, fmt, fractional_ns) ==
  ParseResult(DateParse(base_str, fmt), fractional_ns)

(***************************************************************************)
(* Format table (timestamp_parsing.cpp:32)                                 *)
(***************************************************************************)
UNAMBIGUOUS_FORMATS == <<
  <<"%", "Y", "-", "%", "m", "-", "%", "d", "T", "%", "H", ":", "%", "M", ":", "%", "S">>,
  <<"%", "Y", "-", "%", "m", "-", "%", "d", "T", "%", "H", ":", "%", "M", ":", "%", "S", "%", "z">>,
  <<"%", "Y", "-", "%", "m", "-", "%", "d", "T", "%", "H", ":", "%", "M", ":", "%", "S", "Z">>,
  <<"%", "Y", "-", "%", "m", "-", "%", "d", " ", "%", "H", ":", "%", "M", ":", "%", "S">>,
  <<"%", "Y", "-", "%", "m", "-", "%", "d", " ", "%", "H", ":", "%", "M", ":", "%", "S", "%", "z">>,
  <<"%", "Y", "-", "%", "m", "-", "%", "d">>,
  <<"%", "Y", "/", "%", "m", "/", "%", "d", " ", "%", "H", ":", "%", "M", ":", "%", "S">> >>

NUM_UNAMBIGUOUS_FORMATS == Len(UNAMBIGUOUS_FORMATS)

FMT_DMY_SLASH == <<"%", "d", "/", "%", "m", "/", "%", "Y", " ", "%", "H", ":", "%", "M", ":", "%", "S">>
FMT_MDY_SLASH == <<"%", "m", "/", "%", "d", "/", "%", "Y", " ", "%", "H", ":", "%", "M", ":", "%", "S">>
FMT_DMY_DASH  == <<"%", "d", "-", "%", "m", "-", "%", "Y", " ", "%", "H", ":", "%", "M", ":", "%", "S">>

\* s.find(c) != npos
Contains(s, c) == FindFrom(s, c, 0) # npos

\* the guard of both ambiguous branches
AmbiguousGuard(base_str, c) ==
  Contains(base_str, c) /\ base_str # <<>> /\ base_str[1] # "2"

(***************************************************************************)
(* AutoParseTimestamp (timestamp_parsing.cpp:261)                          *)
(***************************************************************************)
\* if (auto result = a) return result; otherwise go on with b
OrElse(a, b) == IF a # None THEN a ELSE b

\* the loop over UNAMBIGUOUS_FORMATS from index i: first success or None
RECURSIVE AutoTryTable(_, _, _)
AutoTryTable(base_str, ns, i) ==
  IF i > NUM_UNAMBIGUOUS_FORMATS THEN None
  ELSE OrElse(TryParseFormat(base_str, UNAMBIGUOUS_FORMATS[i], ns),
              AutoTryTable(base_str, ns, i + 1))

\* the '/' branch
AutoTrySlash(base_str, ns) ==
  IF AmbiguousGuard(base_str, "/")
  THEN TryParseFormat(base_str,
                      IF IsDayFirstFormat(base_str, "/") THEN FMT_DMY_SLASH ELSE FMT_MDY_SLASH,
                      ns)
  ELSE None

\* the '-' branch
AutoTryDash(base_str, ns) ==
  IF AmbiguousGuard(base_str, "-") /\ IsDayFirstFormat(base_str, "-")
  THEN TryParseFormat(base_str, FMT_DMY_DASH, ns)
  ELSE None

\* the datetime part of AutoParseTimestamp on the split input e
AutoParseSplit(e) ==
  OrElse(AutoTryTable(e.base, e.ns, 1),
         OrElse(AutoTrySlash(e.base, e.ns), AutoTryDash(e.base, e.ns)))

\* the datetime part of AutoParseTimestamp
AutoParseDatetime(trimmed) == AutoParseSplit(ExtractFractionalSeconds(trimmed))

AutoParseTimestamp(s) ==
  LET trimmed == Trim(s) IN
  IF trimmed = <<>> THEN None
  ELSE LET num_info == CheckNumeric(trimmed) IN
    IF num_info.is_number
    THEN IF ~num_info.has_decimal /\ ~num_info.has_exponent
         THEN LET ts == Stoll(trimmed)
              IN  IF ts.ok THEN EpochToSeconds(ts.val, DetectEpochType(ts.val))
                  ELSE AutoParseDatetime(trimmed)
         ELSE ToDouble(trimmed)
    ELSE AutoParseDatetime(trimmed)

(***************************************************************************)
(* DetectColumnType (timestamp_parsing.cpp:383)                            *)
(***************************************************************************)
\* ColumnTypeInfo
TypeInfo(type, format, has_fractional) ==
  [type |-> type, format |-> format, has_fractional |-> has_fractional]

\* the lambda try_format
TryFormat(base_str, fmt) == DateParse(base_str, fmt).ok

\* the loop over UNAMBIGUOUS_FORMATS from index i: index of the first match, 0 if none
RECURSIVE DetectTryTable(_, _)
DetectTryTable(base_str, i) ==
  IF i > NUM_UNAMBIGUOUS_FORMATS THEN 0
  ELSE IF TryFormat(base_str, UNAMBIGUOUS_FORMATS[i]) THEN i
  ELSE DetectTryTable(base_str, i + 1)

\* the datetime part of DetectColumnType
DetectDatetime(trimmed) ==
  LET e        == ExtractFractionalSeconds(trimmed)
      has_frac == e.ns > 0 \/ trimmed # e.base
      hit      == DetectTryTable(e.base, 1)
      slashFmt == IF IsDayFirstFormat(e.base, "/") THEN FMT_DMY_SLASH ELSE FMT_MDY_SLASH
  IN  IF hit # 0 THEN TypeInfo("DATETIME", UNAMBIGUOUS_FORMATS[hit], has_frac)
      ELSE IF AmbiguousGuard(e.base, "/") /\ TryFormat(e.base, slashFmt)
      THEN TypeInfo("DATETIME", slashFmt, has_frac)
      ELSE IF /\ AmbiguousGuard(e.base, "-")
              /\ IsDayFirstFormat(e.base, "-")
              /\ TryFormat(e.base, FMT_DMY_DASH)
      THEN TypeInfo("DATETIME", FMT_DMY_DASH, has_frac)
      ELSE TypeInfo("STRING", <<>>, has_frac)

\* the 0x / 0X test
HasHexPrefix(trimmed) ==
  Len(trimmed) > 2 /\ trimmed[1] = "0" /\ (trimmed[2] = "x" \/ trimmed[2] = "X")

\* the detector with the empty sample tagged as a number
DetectColumnTypeEmptyNumber(s) ==
  LET trimmed == Trim(s) IN
  IF trimmed = <<>> THEN TypeInfo("NUMBER", <<>>, FALSE)
  ELSE IF HasHexPrefix(trimmed) THEN TypeInfo("HEX", <<>>, FALSE)
  ELSE LET num_info == CheckNumeric(trimmed) IN
    IF num_info.is_number
    THEN IF num_info.has_decimal THEN TypeInfo("NUMBER", <<>>, FALSE)
         ELSE LET ts == Stoll(trimmed)
              IN  IF ts.ok THEN TypeInfo(DetectEpochType(ts.val), <<>>, FALSE)
                  ELSE TypeInfo("NUMBER", <<>>, FALSE)
    ELSE DetectDatetime(trimmed)

DetectColumnType(s) ==
  LET trimmed == Trim(s) IN
  IF trimmed = <<>> THEN TypeInfo("STRING", <<>>, FALSE)
  ELSE IF HasHexPrefix(trimmed) THEN TypeInfo("HEX", <<>>, FALSE)
  ELSE LET num_info == CheckNumeric(trimmed) IN
    IF num_info.is_number
    THEN IF num_info.has_decimal THEN TypeInfo("NUMBER", <<>>, FALSE)
         ELSE LET ts == Stoll(trimmed)
              IN  IF ts.ok THEN TypeInfo(DetectEpochType(ts.val), <<>>, FALSE)
                  ELSE TypeInfo("NUMBER", <<>>, FALSE)
    ELSE DetectDatetime(trimmed)

(***************************************************************************)
(* ParseWithType (timestamp_parsing.cpp:475)                               *)
(***************************************************************************)
EpochTypes == {"EPOCH_SECONDS", "EPOCH_MILLIS", "EPOCH_MICROS", "EPOCH_NANOS"}

\* the fast path with the epoch unit chosen again from the magnitude
ParseWithTypeReclassify(s, type_info) ==
  LET trimmed == Trim(s) IN
  IF trimmed = <<>> THEN None
  ELSE CASE type_info.type = "NUMBER" -> ToDouble(trimmed)
         [] type_info.type = "HEX" ->
              LET v == StollHex(trimmed)
              IN  IF v.ok THEN ToDoubleOfInt(v.val) ELSE None
         [] type_info.type \in EpochTypes ->
              LET v == Stoll(trimmed)
              IN  IF v.ok THEN EpochToSeconds(v.val, DetectEpochType(v.val)) ELSE None
         [] type_info.type = "DATETIME" ->
              LET e == ExtractFractionalSeconds(trimmed)
              IN  TryParseFormat(e.base, type_info.format,
                                 IF type_info.has_fractional THEN e.ns ELSE 0)
         [] OTHER -> None

ParseWithType(s, type_info) ==
  LET trimmed == Trim(s) IN
  IF trimmed = <<>> THEN None
  ELSE CASE type_info.type = "NUMBER" -> ToDouble(trimmed)
         [] type_info.type = "HEX" ->
              LET v == StollHex(trimmed)
              IN  IF v.ok THEN ToDoubleOfInt(v.val) ELSE None
         [] type_info.type \in EpochTypes ->
              LET v == Stoll(trimmed)
              IN  IF v.ok THEN EpochToSeconds(v.val, type_info.type) ELSE None
         [] type_info.type = "DATETIME" ->
              LET e == ExtractFractionalSeconds(trimmed)
              IN  TryParseFormat(e.base, type_info.format,
                                 IF type_info.has_fractional THEN e.ns ELSE 0)
         [] OTHER -> None

(***************************************************************************)
(* FormatParseTimestamp (timestamp_parsing.cpp:327)                        *)
(***************************************************************************)
\* s has pat at 0-based pos
MatchesAt(s, pat, pos) ==
  pos + Len(pat) <= Len(s) /\ \A i \in 1..Len(pat) : s[pos + i] = pat[i]

\* std::string::find(pat, from) for a non-empty pat
RECURSIVE FindStr(_, _, _)
FindStr(s, pat, from) ==
  IF from + Len(pat) > Len(s) THEN npos
  ELSE IF MatchesAt(s, pat, from) THEN from ELSE FindStr(s, pat, from + 1)

\* the lambda replace_all, continuing from 0-based pos
RECURSIVE ReplaceAllFrom(_, _, _, _)
ReplaceAllFrom(s, from, to, pos) ==
  LET at == FindStr(s, from, pos)
  IN  IF at = npos THEN s
      ELSE ReplaceAllFrom(Substr(s, 0, at) \o to \o SubstrFrom(s, at + Len(from)),
                          from, to, at + Len(to))

ReplaceAll(s, from, to) == ReplaceAllFrom(s, from, to, 0)

\* the eight replace_all calls, in order
QtToStrptime(f) ==
  LET f1 == ReplaceAll(f,  <<"y", "y", "y", "y">>, <<"%", "Y">>)
      f2 == ReplaceAll(f1, <<"y", "y">>, <<"%", "y">>)
      f3 == ReplaceAll(f2, <<"M", "M">>, <<"%", "m">>)
      f4 == ReplaceAll(f3, <<"d", "d">>, <<"%", "d">>)
      f5 == ReplaceAll(f4, <<"h", "h">>, <<"%", "H">>)
      f6 == ReplaceAll(f5, <<"H", "H">>, <<"%", "H">>)
      f7 == ReplaceAll(f6, <<"m", "m">>, <<"%", "M">>)
  IN  ReplaceAll(f7, <<"s", "s">>, <<"%", "S">>)

\* number of 'z' characters from 0-based pos on
RECURSIVE CountZ(_, _)
CountZ(f, pos) ==
  IF pos < Len(f) /\ f[pos + 1] = "z" THEN 1 + CountZ(f, pos + 1) ELSE 0

\* find(c, from) where from was computed in size_t: a negative from stands
\* for from + 2^64, which lies beyond the end of every string
FindFromSizeT(s, c, from) == IF from < 0 THEN npos ELSE FindFrom(s, c, from)

\* the arguments FormatParseTimestamp hands to TryParseFormat for a
\* non-empty trimmed input
FormatParseArgs(trimmed, format) ==
  LET zzz_pos == FindStr(format, <<".", "z", "z", "z">>, 0)
      z_start == zzz_pos + 1
      z_count == CountZ(format, z_start)
      input_dot_pos ==
        IF zzz_pos = npos THEN npos
        ELSE FindFromSizeT(trimmed, ".", IF zzz_pos > 0 THEN zzz_pos - 5 ELSE 0)
      e == ExtractFractionalSeconds(trimmed)
  IN  IF zzz_pos # npos /\ input_dot_pos # npos
      THEN [called |-> TRUE, base |-> e.base,
            fmt |-> QtToStrptime(Substr(format, 0, zzz_pos) \o SubstrFrom(format, z_start + z_count)),
            ns |-> e.ns]
      ELSE [called |-> TRUE, base |-> trimmed, fmt |-> QtToStrptime(format), ns |-> 0]

FormatParseTimestamp(s, format) ==
  LET trimmed == Trim(s) IN
  IF trimmed = <<>> THEN None
  ELSE LET a == FormatParseArgs(trimmed, format)
       IN  TryParseFormat(a.base, a.fmt, a.ns)

(***************************************************************************)
(* Specification of a column: the type is detected once on a sample (or    *)
(* supplied by the caller), then every row is parsed with the cached type,  *)
(* with the one-shot parser and with an explicit format.                   *)
(***************************************************************************)
MaxRows == 1          \* rows consumed after the first one

CanonicalCells ==
  {<<"4", "2">>,
   <<"3", ".", "1", "4">>,
   <<"0", "x", "1", "F">>,
   <<"1", "7", "1", "8", "0", "0", "0", "0", "0", "0">>,
   <<"2", "0", "2", "4", "-", "0", "1", "-", "1", "5", "T", "1", "0", ":", "3", "0", ":", "0", "0">>,
   <<"n", "o", "t", " ", "a", " ", "d", "a", "t", "e">>}

EpochRows ==
  {<<"1", "7", "0", "0", "0", "0", "0", "0", "0", "0">>,
   <<"1", "7", "0", "0", "0", "0", "0", "0", "0", "1">>,
   <<"1", "7", "0", "0", "0", "0", "0", "0", "0", "2">>}

BlankCells ==
  {<<>>,
   <<" ">>,
   <<"\t">>,
   <<" ", "\r", "\n", " ">>,
   <<"\n", "\t", " ", "\r">>}

OtherCells ==
  {<<"1", "7", "0", "0", "0", "0", "0", "0", "0", "0", "e", "5">>,
   <<"-", "e", "5">>,
   <<"1", "7", "0", "0", "0", "0", "0", "0", "0", "0", "1", "2", "3">>,
   <<"9", "9", "9", "9", "9", "9", "9", "9", "9", "9", "9", "9", "9", "9", "9", "9", "9", "9", "9", "9">>,
   <<" ", " ", "4", "2", " ">>,
   <<"1", ",", "5">>,
   <<"1", "3", "/", "0", "5", "/", "2", "0", "2", "4", " ", "1", "0", ":", "3", "0", ":", "0", "0">>,
   <<"0", "5", "/", "1", "3", "/", "2", "0", "2", "4", " ", "1", "0", ":", "3", "0", ":", "0", "0">>,
   <<"1", "5", "-", "0", "1", "-", "2", "0", "2", "4", " ", "1", "0", ":", "3", "0", ":", "0", "0">>,
   <<"2", "0", "2", "4", "-", "0", "1", "-", "1", "5", " ", "1", "0", ":", "3", "0", ":", "0", "0", ".", "2", "5", "0">>,
   <<"1", "0", ":", "4", "5", ".", "5">>,
   <<"1", "2", "a", "b", "c">>,
   <<"-", "1", "7", "0", "0", "0", "0", "0", "0", "0", "0">>}

Cells == CanonicalCells \cup EpochRows \cup BlankCells \cup OtherCells

QtFormats ==
  {<<"y", "y", "y", "y", "-", "M", "M", "-", "d", "d", " ", "h", "h", ":", "m", "m", ":", "s", "s", ".", "z", "z", "z">>,
   <<"y", "y", "y", "y", "-", "M", "M", "-", "d", "d", " ", "h", "h", ":", "m", "m", ":", "s", "s">>,
   <<"s", "s", ".", "z", "z", "z">>,
   <<"y", "y", "y", "y", "-", "M", "M", "-", "d", "d", " ", "h", "h", ":", "m", "m", ":", "s", "s", ".", "z", "z">>,
   <<"y", "y", "y", "y", "-", "M", "M", "-", "d", "d", " ", "h", "h", ":", "m", "m", ":", "s", "s", ".", "z">>,
   <<"d", "d", "/", "M", "M", "/", "y", "y", "y", "y", " ", "H", "H", ":", "m", "m", ":", "s", "s">>,
   <<>>}

ColumnTypes == EpochTypes \cup {"STRING", "NUMBER", "HEX", "DATETIME"}

\* type descriptors a caller may hand in without running the detector
PresetInfos ==
  {TypeInfo(t, <<>>, FALSE) : t \in ColumnTypes \ {"DATETIME"}}
    \cup {TypeInfo("DATETIME", f, h) : f \in {<<>>, UNAMBIGUOUS_FORMATS[4]}, h \in BOOLEAN}

InitColumn ==
  /\ str \in Cells
  /\ info \in {NoInfo} \cup PresetInfos
  /\ sample = IF info = NoInfo THEN NoSample ELSE [by |-> "preset", s |-> <<>>]
  /\ rParse = Pending /\ rAuto = Pending /\ rFormat = Pending
  /\ fmtArg = <<>> /\ fCall = NoCall /\ rows = 0
  /\ HelperIdle /\ RefIdle

DetectColumnTypeStep ==
  /\ info = NoInfo
  /\ info' = DetectColumnType(str)
  /\ sample' = [by |-> "detect", s |-> str]
  /\ UNCHANGED <<str, rParse, rAuto, rFormat, fmtArg, fCall, rows, helperVars, refVars>>

ParseWithTypeStep ==
  /\ info # NoInfo
  /\ rParse = Pending
  /\ rParse' = ParseWithType(str, info)
  /\ UNCHANGED <<str, info, sample, rAuto, rFormat, fmtArg, fCall, rows, helperVars, refVars>>

AutoParseTimestampStep ==
  /\ rAuto = Pending
  /\ rAuto' = AutoParseTimestamp(str)
  /\ UNCHANGED <<str, info, sample, rParse, rFormat, fmtArg, fCall, rows, helperVars, refVars>>

FormatParseTimestampStep ==
  /\ rFormat = Pending
  /\ \E f \in QtFormats :
       /\ fmtArg' = f
       /\ rFormat' = FormatParseTimestamp(str, f)
       /\ fCall' = IF Trim(str) = <<>> THEN NoCall ELSE FormatParseArgs(Trim(str), f)
  /\ UNCHANGED <<str, info, sample, rParse, rAuto, rows, helperVars, refVars>>

NextRow ==
  /\ rParse # Pending /\ rAuto # Pending /\ rFormat # Pending
  /\ rows < MaxRows
  /\ \E c \in Cells : str' = c
  /\ rows' = rows + 1
  /\ rParse' = Pending /\ rAuto' = Pending /\ rFormat' = Pending
  /\ fmtArg' = <<>> /\ fCall' = NoCall
  /\ UNCHANGED <<info, sample, helperVars, refVars>>

NextColumn ==
  \/ DetectColumnTypeStep
  \/ ParseWithTypeStep
  \/ AutoParseTimestampStep
  \/ FormatParseTimestampStep
  \/ NextRow

SpecColumn == InitColumn /\ [][NextColumn]_vars

(***************************************************************************)
(* Claims about the public entry points                                    *)
(***************************************************************************)
\* the cached type was detected on the current row
DetectedOnThisRow == sample = [by |-> "detect", s |-> str]

\* C1: for each canonical sample, DetectColumnType followed by ParseWithType
\* on the same string gives the result of AutoParseTimestamp on that string.
C1_RoundTrip ==
  (str \in CanonicalCells /\ DetectedOnThisRow /\ rParse # Pending /\ rAuto # Pending)
    => rParse = rAuto

\* the value v / 10^k
Scaled(v, k) == Dec(v.neg, v.mag, 0 - k)

\* decimal exponent of the fixed scale of an epoch type
ScaleExp(type) ==
  CASE type = "EPOCH_NANOS" -> 9
    [] type = "EPOCH_MICROS" -> 6
    [] type = "EPOCH_MILLIS" -> 3
    [] OTHER -> 0

\* C2: with a cached epoch type T, ParseWithType returns v / scale(T) for
\* every row that parses as a 64-bit integer v, inside or outside T's window;
\* a column detected as EpochSeconds parses the rows 1700000000..1700000002
\* to their own value; with the cached type String it returns no value.
C2_NoReclassification ==
  rParse # Pending =>
    /\ (info.type \in EpochTypes /\ Stoll(Trim(str)).ok)
         => rParse = Scaled(Stoll(Trim(str)).val, ScaleExp(info.type))
    /\ (info.type = "EPOCH_SECONDS" /\ str \in EpochRows)
         => rParse = Dec(FALSE, [i \in 1..Len(str) |-> DigitVal(str[i])], 0)
    /\ info.type = "STRING" => rParse = None

\* a column detected as EpochSeconds parsed a later row of millisecond
\* magnitude as seconds
C2_Witness ==
  /\ rows > 0
  /\ sample = [by |-> "detect", s |-> <<"1", "7", "0", "0", "0", "0", "0", "0", "0", "0">>]
  /\ info.type = "EPOCH_SECONDS"
  /\ str = <<"1", "7", "0", "0", "0", "0", "0", "0", "0", "0", "1", "2", "3">>
  /\ rParse = [tag |-> "value", neg |-> FALSE, exp |-> 0,
               mag |-> <<1, 7, 0, 0, 0, 0, 0, 0, 0, 0, 1, 2, 3>>]

\* C3: a numeric sample with a decimal or exponent marker is detected as
\* Number; an epoch type is detected only for a purely integral sample.
C3_MarkersGiveNumber ==
  LET t == Trim(sample.s) IN
  (sample.by = "detect" /\ t # <<>> /\ ~HasHexPrefix(t) /\ CheckNumeric(t).is_number)
    => /\ (CheckNumeric(t).has_decimal \/ CheckNumeric(t).has_exponent) => info.type = "NUMBER"
       /\ info.type \in EpochTypes
            => (~CheckNumeric(t).has_decimal /\ ~CheckNumeric(t).has_exponent)

\* 0-based index of the first '.' followed by 'z' in f, npos if none
MarkerPos(f) ==
  IF \E i \in 1..(Len(f) - 1) : f[i] = "." /\ f[i + 1] = "z"
  THEN (CHOOSE i \in 1..(Len(f) - 1) :
          /\ f[i] = "." /\ f[i + 1] = "z"
          /\ \A j \in 1..(i - 1) : ~(f[j] = "." /\ f[j + 1] = "z")) - 1
  ELSE npos

\* f without its fractional marker
WithoutMarker(f) ==
  LET p == MarkerPos(f)
  IN  Substr(f, 0, p) \o SubstrFrom(f, p + 1 + CountZ(f, p + 1))

\* C5: a '.' followed by one or more 'z' anywhere in the explicit format makes
\* FormatParseTimestamp split the input as ExtractFractionalSeconds does,
\* match against the format without the marker and add the nanoseconds.
C5_FractionalMarker ==
  (rFormat # Pending /\ Contains(Trim(str), ".") /\ MarkerPos(fmtArg) # npos)
    => LET e == ExtractFractionalSeconds(Trim(str))
       IN  /\ fCall = [called |-> TRUE, base |-> e.base,
                       fmt |-> QtToStrptime(WithoutMarker(fmtArg)), ns |-> e.ns]
           /\ rFormat = TryParseFormat(e.base, QtToStrptime(WithoutMarker(fmtArg)), e.ns)

\* only spaces, tabs, carriage returns and line feeds (or nothing at all)
IsBlank(s) == \A i \in 1..Len(s) : s[i] \in {" ", "\t", "\r", "\n"}

\* C6: on an empty or white-space-only input DetectColumnType returns String
\* and ParseWithType, AutoParseTimestamp and FormatParseTimestamp return no
\* value, for every cached type and every format.
C6_BlankInput ==
  /\ (sample.by = "detect" /\ IsBlank(sample.s)) => info.type = "STRING"
  /\ IsBlank(str) =>
       /\ rParse \in {Pending, None}
       /\ rAuto \in {Pending, None}
       /\ rFormat \in {Pending, None}

\* a white-space-only row went through all four entry points
C6_Witness ==
  /\ str = <<" ", "\r", "\n", " ">>
  /\ DetectedOnThisRow
  /\ info.type = "STRING"
  /\ rParse = None /\ rAuto = None /\ rFormat = None
  /\ fmtArg = <<"y", "y", "y", "y", "-", "M", "M", "-", "d", "d", " ", "h", "h", ":", "m", "m", ":", "s", "s", ".", "z", "z", "z">>

(***************************************************************************)
(* PJ::StringRef (string_ref_sso.h): objects in slots, buffers on a heap   *)
(* whose addresses the allocator may hand out again after a delete[].      *)
(***************************************************************************)
NumObjs   == 3        \* object slots
MaxStrLen == 2        \* longest string a StringRef is constructed from

NumBufs == NumObjs + 1

nullptr == 0

Dead == [live |-> FALSE, data |-> nullptr, size |-> 0, moved |-> FALSE]

FreeBuf == [st |-> "free", len |-> 0]

\* an object holding data and size
Obj(data, size) == [live |-> TRUE, data |-> data, size |-> size, moved |-> FALSE]

\* a move that leaves the source untouched
MovedFromStale(other) == [other EXCEPT !.moved = TRUE]

\* other after a move took its buffer: _data = nullptr, _size = 0
MovedFrom(other) == [live |-> TRUE, data |-> nullptr, size |-> 0, moved |-> TRUE]

\* addresses new char[] may return
Available == {b \in 1..NumBufs : heap[b].st # "alloc"}

\* the heap after new char[n] returned b
HeapNew(h, b, n) == [h EXCEPT ![b] = [st |-> "alloc", len |-> n]]

\* the heap after delete[] p
HeapDelete(h, p) == IF p = nullptr \/ h[p].st # "alloc" THEN h ELSE [h EXCEPT ![p] = FreeBuf]

\* faults of delete[] p
DeleteFaults(h, p) == IF p # nullptr /\ h[p].st # "alloc" THEN {"double free"} ELSE {}

\* faults of memcpy reading n bytes from p
ReadFaults(h, p, n) ==
  IF h[p].st # "alloc" THEN {"use after free"}
  ELSE IF h[p].len < n THEN {"read past the end"} ELSE {}

InitRef ==
  /\ objs = [i \in 1..NumObjs |-> Dead]
  /\ heap = [b \in 1..NumBufs |-> FreeBuf]
  /\ fault = {}
  /\ HelperIdle /\ ColumnIdle

\* StringRef()
DefaultCtor(i) ==
  /\ ~objs[i].live
  /\ objs' = [objs EXCEPT ![i] = Obj(nullptr, 0)]
  /\ UNCHANGED <<heap, fault, helperVars, columnVars>>

\* StringRef(const char* data_ptr, size_t length) and the constructors
\* delegating to it (std::string, const char*, std::string_view)
PtrLenCtor(i) ==
  /\ ~objs[i].live
  /\ \E isNull \in BOOLEAN, length \in 0..MaxStrLen :
       IF ~isNull /\ length > 0
       THEN \E b \in Available :
              /\ objs' = [objs EXCEPT ![i] = Obj(b, length)]
              /\ heap' = HeapNew(heap, b, length + 1)
       ELSE /\ objs' = [objs EXCEPT ![i] = Obj(nullptr, 0)]
            /\ heap' = heap
  /\ UNCHANGED <<fault, helperVars, columnVars>>

\* ~StringRef()
Dtor(i) ==
  /\ objs[i].live
  /\ heap' = HeapDelete(heap, objs[i].data)
  /\ fault' = fault \cup DeleteFaults(heap, objs[i].data)
  /\ objs' = [objs EXCEPT ![i] = Dead]
  /\ UNCHANGED <<helperVars, columnVars>>

\* StringRef(const StringRef& other)
CopyCtor(i, j) ==
  /\ ~objs[i].live /\ objs[j].live
  /\ IF objs[j].data # nullptr
     THEN \E b \in Available :
            /\ objs' = [objs EXCEPT ![i] = Obj(b, objs[j].size)]
            /\ heap' = HeapNew(heap, b, objs[j].size + 1)
            /\ fault' = fault \cup ReadFaults(heap, objs[j].data, objs[j].size + 1)
     ELSE /\ objs' = [objs EXCEPT ![i] = Obj(nullptr, 0)]
          /\ UNCHANGED <<heap, fault>>
  /\ UNCHANGED <<helperVars, columnVars>>

\* StringRef& operator=(const StringRef& other)
CopyAssign(i, j) ==
  /\ objs[i].live /\ objs[j].live
  /\ IF i # j
     THEN LET h1 == HeapDelete(heap, objs[i].data)
              f1 == DeleteFaults(heap, objs[i].data)
          IN  IF objs[j].data # nullptr
              THEN \E b \in {c \in 1..NumBufs : h1[c].st # "alloc"} :
                     /\ objs' = [objs EXCEPT ![i] = Obj(b, objs[j].size)]
                     /\ heap' = HeapNew(h1, b, objs[j].size + 1)
                     /\ fault' = fault \cup f1 \cup ReadFaults(h1, objs[j].data, objs[j].size + 1)
              ELSE /\ objs' = [objs EXCEPT ![i] = Obj(nullptr, 0)]
                   /\ heap' = h1
                   /\ fault' = fault \cup f1
     ELSE UNCHANGED <<objs, heap, fault>>
  /\ UNCHANGED <<helperVars, columnVars>>

\* StringRef(StringRef&& other)
MoveCtor(i, j) ==
  /\ ~objs[i].live /\ objs[j].live
  /\ objs' = [objs EXCEPT ![i] = Obj(objs[j].data, objs[j].size),
                          ![j] = MovedFrom(objs[j])]
  /\ UNCHANGED <<heap, fault, helperVars, columnVars>>

\* StringRef& operator=(StringRef&& other)
MoveAssign(i, j) ==
  /\ objs[i].live /\ objs[j].live
  /\ IF i # j
     THEN /\ heap' = HeapDelete(heap, objs[i].data)
          /\ fault' = fault \cup DeleteFaults(heap, objs[i].data)
          /\ objs' = [objs EXCEPT ![i] = Obj(objs[j].data, objs[j].size),
                                  ![j] = MovedFrom(objs[j])]
     ELSE UNCHANGED <<objs, heap, fault>>
  /\ UNCHANGED <<helperVars, columnVars>>

NextRef ==
  \/ \E i \in 1..NumObjs : DefaultCtor(i)
  \/ \E i \in 1..NumObjs : PtrLenCtor(i)
  \/ \E i \in 1..NumObjs : Dtor(i)
  \/ \E i, j \in 1..NumObjs : CopyCtor(i, j)
  \/ \E i, j \in 1..NumObjs : CopyAssign(i, j)
  \/ \E i, j \in 1..NumObjs : MoveCtor(i, j)
  \/ \E i, j \in 1..NumObjs : MoveAssign(i, j)

SpecRef == InitRef /\ [][NextRef]_vars

(***************************************************************************)
(* Claims about StringRef                                                  *)
(***************************************************************************)
Live == {i \in 1..NumObjs : objs[i].live}

\* C10: every live StringRef has _data == nullptr exactly when _size == 0
\* and otherwise owns an allocated buffer of _size + 1 bytes; no two live
\* objects hold the same buffer; a moved-from object is empty; no buffer is
\* freed twice or read after its free; every allocated buffer belongs to a
\* live object, so none is left once all objects are destroyed.
C10_Ownership ==
  /\ \A i \in Live : (objs[i].data = nullptr) <=> (objs[i].size = 0)
  /\ \A i \in Live : objs[i].data # nullptr
        => heap[objs[i].data] = [st |-> "alloc", len |-> objs[i].size + 1]
  /\ \A i, j \in Live : (i # j /\ objs[i].data # nullptr) => objs[i].data # objs[j].data
  /\ \A i \in Live : objs[i].moved => (objs[i].data = nullptr /\ objs[i].size = 0)
  /\ fault = {}
  /\ \A b \in 1..NumBufs : heap[b].st = "alloc" => \E i \in Live : objs[i].data = b
  /\ Live = {} => \A b \in 1..NumBufs : heap[b].st = "free"

\* a buffer was moved out of one object into another while a third object
\* holds its own copy
C10_Witness ==
  /\ objs[1].live /\ objs[1].moved
  /\ objs[2].live /\ objs[2].data # nullptr /\ objs[2].size = MaxStrLen
  /\ objs[3].live /\ objs[3].data # nullptr /\ objs[3].data # objs[2].data

====
